---- MODULE Spec2Model ----
(***************************************************************************)
(* The iCode MCP server (ICodeMcpServer): JSON-RPC 2.0 over line-framed    *)
(* stdio.  The model follows the Node event loop: the readline 'line'      *)
(* listener runs synchronously up to its first await, every await resumes  *)
(* on the FIFO microtask queue, and data chunks, child-process             *)
(* completions, signals and the stdin close are macrotasks that run only   *)
(* when the microtask queue is empty.                                      *)
(***************************************************************************)
EXTENDS Integers, Sequences, FiniteSets, TLC

VARIABLES
    pc,                \* the entry point: "main" before start() is called, then "serving"
    tools,             \* Map<string, McpTool>, in insertion order
    toolHandlers,      \* Map<string, ToolHandler>, in insertion order
    resources,         \* Map<string, McpResource>
    resourceHandlers,  \* Map<string, ResourceHandler>
    running,           \* ICodeMcpServer.running
    listeners,         \* number of 'line' listeners attached to stdin
    stdinOpen,         \* the input stream has not closed
    exited,            \* the process has ended
    exitCode,          \* its exit status (NoExit while it runs)
    lines,             \* the input lines read so far, in order
    inChunk,           \* readline is still emitting lines of the current chunk
    tasks,             \* the microtask queue: suspended listeners, FIFO
    pending,           \* tool handlers waiting for their child process
    calls,             \* every tool handler invocation, with its outcome
    stdout,            \* the protocol output channel, line by line
    stderr,            \* the diagnostic channel, line by line
    api,               \* the calls made on the server object so far, in order
    shell              \* a handler called by itself: its arguments and the command lines it runs

vars == <<pc, tools, toolHandlers, resources, resourceHandlers, running, listeners,
          stdinOpen, exited, exitCode, lines, inChunk, tasks, pending, calls,
          stdout, stderr, api, shell>>

(***************************************************************************)
(* Bounds of the model.                                                    *)
(***************************************************************************)
MaxLines == 2

\* registerTool calls an embedding program makes after construction.
MaxRegistrations == 2

\* start() calls an embedding program makes.
MaxStarts == 2

\* stop() calls an embedding program makes.
MaxStops == 1

\* Length of an argument text handed to a handler that runs a shell command.
MaxArgLen == 2

(***************************************************************************)
(* JsonRpcErrorCode.                                                       *)
(***************************************************************************)
ParseError == -32700

InvalidRequest == -32600

MethodNotFound == -32601

InvalidParams == -32602

InternalError == -32603

(***************************************************************************)
(* JSON values.  A field that is absent reads as undefined: NoId for the   *)
(* id, Undefined for strings.  Unprintable is an object such as            *)
(* {"toString":0} whose conversion to a string throws a TypeError.         *)
(***************************************************************************)
NoId == -1

NoExit == -1

Undefined == "<undefined>"

Unprintable == "<unprintable object>"

\* JavaScript truthiness of a string-or-undefined value (!value is its negation).
Truthy(v) == v \notin {Undefined, ""}

\* JavaScript truthiness of an id: undefined and 0 are falsy.
TruthyId(id) == id \notin {NoId, 0}

\* `${value}` in a template literal throws for an object without a string conversion.
TemplateThrows(v) == v = Unprintable

(***************************************************************************)
(* The tool definitions and handlers the server imports.                   *)
(***************************************************************************)
listProjectsTool == [name |-> "list_projects", required |-> <<>>]

buildTool == [name |-> "build", required |-> <<"project", "scheme", "destination">>]

runTool == [name |-> "run", required |-> <<>>]

configureDebugTool == [name |-> "configure_debug", required |-> <<>>]

configureIndexTool == [name |-> "configure_index", required |-> <<>>]

resolvePackagesTool == [name |-> "resolve_packages", required |-> <<>>]

getStateTool == [name |-> "get_state", required |-> <<>>]

(***************************************************************************)
(* Map<K, V> as the sequence of its entries in insertion order.            *)
(***************************************************************************)
MapHas(m, k) == \E n \in DOMAIN m : m[n].key = k

\* Map.prototype.get for a key the map holds (the callers test MapHas first).
MapGet(m, k) == m[CHOOSE n \in DOMAIN m : m[n].key = k].value

MapValues(m) == [n \in DOMAIN m |-> m[n].value]

\* Mutant of MapSet: a new key is put in front of the older ones.
MapSetFront(m, k, v) ==
    IF MapHas(m, k)
    THEN [n \in DOMAIN m |-> IF m[n].key = k THEN [key |-> k, value |-> v] ELSE m[n]]
    ELSE <<[key |-> k, value |-> v]>> \o m

\* Map.prototype.set: a new key is appended, an existing key keeps its place.
MapSet(m, k, v) ==
    IF MapHas(m, k)
    THEN [n \in DOMAIN m |-> IF m[n].key = k THEN [key |-> k, value |-> v] ELSE m[n]]
    ELSE Append(m, [key |-> k, value |-> v])

\* Mutant of registerTool: every registration adds an entry.
registerToolAppending(maps, tool, handler) ==
    <<Append(maps[1], [key |-> tool.name, value |-> tool]),
      Append(maps[2], [key |-> tool.name, value |-> handler])>>

\* Mutant of registerTool: the definition is stored, the handler is not.
registerToolDefinitionOnly(maps, tool, handler) ==
    <<MapSet(maps[1], tool.name, tool), maps[2]>>

\* registerTool(tool, handler) on the pair of maps <<tools, toolHandlers>>.
registerTool(maps, tool, handler) ==
    <<MapSet(maps[1], tool.name, tool), MapSet(maps[2], tool.name, handler)>>

\* The registrations of registerTools() followed by registerResources().
Registrations ==
    << <<listProjectsTool, "handleListProjects">>,
       <<buildTool, "handleBuild">>,
       <<runTool, "handleRun">>,
       <<configureDebugTool, "handleConfigureDebug">>,
       <<configureIndexTool, "handleConfigureIndex">>,
       <<resolvePackagesTool, "handleResolvePackages">>,
       <<getStateTool, "handleGetState">> >>

RECURSIVE RegisterAll(_, _)
RegisterAll(maps, n) ==
    IF n = 0 THEN maps
    ELSE registerTool(RegisterAll(maps, n - 1), Registrations[n][1], Registrations[n][2])

\* The maps the constructor leaves behind.
Constructed == RegisterAll(<< <<>>, <<>> >>, Len(Registrations))

(***************************************************************************)
(* Input lines.  A line is text; JSON.parse either throws on it or yields  *)
(* a value.  A line that is not valid JSON may still show an id fragment   *)
(* such as "id":5 in its text (frag).  A parsed value is an object or      *)
(* null; an object may carry an own member named hasOwnProperty (shadow),  *)
(* which no JSON value makes callable.  (A number, string or array has no  *)
(* own id and no method: it is handled as the object {} is.)               *)
(***************************************************************************)
NoParams == [present |-> FALSE, name |-> Undefined, arguments |-> Undefined, uri |-> Undefined]

ToolParams(name, arguments) ==
    [present |-> TRUE, name |-> name, arguments |-> arguments, uri |-> Undefined]

UriParams(uri) ==
    [present |-> TRUE, name |-> Undefined, arguments |-> Undefined, uri |-> uri]

JsonObject(id, method, params, shadow) ==
    [shape |-> "object", jsonrpc |-> "2.0", id |-> id, method |-> method,
     params |-> params, shadow |-> shadow]

\* The same object with another jsonrpc member (Undefined: without one).
Versioned(version, object) == [object EXCEPT !.jsonrpc = version]

JsonNull ==
    [shape |-> "null", jsonrpc |-> Undefined, id |-> NoId, method |-> Undefined,
     params |-> NoParams, shadow |-> FALSE]

InvalidJson(frag) == [valid |-> FALSE, frag |-> frag, value |-> JsonNull]

JsonLine(value) == [valid |-> TRUE, frag |-> value.id, value |-> value]

\* JSON.parse(line) throws a SyntaxError.
JSONparseThrows(line) == ~line.valid

\* JSON.parse(line) when it does not throw.
JSONparse(line) == line.value

\* Reading a property of null throws a TypeError.
PropertyReadThrows(message) == message.shape = "null"

\* message.hasOwnProperty('id') throws: on null, and when an own member shadows the method.
hasOwnPropertyThrows(message) == PropertyReadThrows(message) \/ message.shadow

\* Mutant of hasOwnProperty_id: every message is taken for a request.
hasOwnProperty_idAlways(message) == TRUE

\* message.hasOwnProperty('id')
hasOwnProperty_id(message) == message.id # NoId

\* String(value) as a template literal renders it.
Str(v) == IF v = Undefined THEN "undefined" ELSE v

(***************************************************************************)
(* The arguments a tools/call may carry, by what the handlers read of them.*)
(***************************************************************************)
ArgsFull == "{project:'App.xcodeproj',scheme:'App',destination:'platform=iOS Simulator,name=iPhone 15'}"

ArgsBadType == "{project:5,scheme:'App',destination:'X',workspacePath:5}"

(***************************************************************************)
(* Tool handlers.  Each is an async function: it settles with a value or   *)
(* with a thrown failure.  io says whether it first awaits a child process *)
(* (exec); outcomes are the ways it can settle for the given arguments.    *)
(***************************************************************************)
Content(text) == [content |-> <<[type |-> "text", text |-> text]>>]

Resolve(text) == [ok |-> TRUE, value |-> Content(text)]

Reject(message) == [ok |-> FALSE, failure |-> [isError |-> TRUE, message |-> message]]

handleListProjects(params) ==
    [io |-> TRUE,
     outcomes |-> {Resolve("{projects,count,searchDirectory}"),
                   Reject("Failed to list projects: Failed to find projects: Error: Command failed")}]

\* exec rejects: xcodebuild exits with an error, or is killed when the
\* timeout of 600000 ms expires; handleBuild rethrows with its prefix.
execFailed == Reject("Build failed: Command failed: xcodebuild\n")

\* exec rejects: the output outgrows maxBuffer (50 MB) and the child is killed.
execOverflowed == Reject("Build failed: stdout maxBuffer length exceeded\n")

handleBuild(params) ==
    IF params = Undefined
    THEN [io |-> FALSE,
          outcomes |-> {Reject("Build failed: Missing required parameters: project, scheme, and destination are required. Use list_projects to find available projects.\n")}]
    ELSE IF params = ArgsBadType
    THEN [io |-> FALSE,
          outcomes |-> {Reject("Build failed: project.endsWith is not a function\n")}]
    ELSE [io |-> TRUE,
          echo |-> "[MCP] Executing build command: xcodebuild -project ... build",
          outcomes |-> {Resolve("{success:true,message:'Build completed successfully'}"),
                        execFailed, execOverflowed}]

handleRun(params) ==
    [io |-> TRUE,
     outcomes |-> {Resolve("{success:true,command:'icode.run'}"),
                   Resolve("{success:false,command:'icode.run'}")}]

handleConfigureDebug(params) ==
    [io |-> FALSE, outcomes |-> {Resolve("{note:'Debug configuration requires the VS Code extension'}")}]

handleConfigureIndex(params) ==
    [io |-> FALSE, outcomes |-> {Resolve("{note:'Swift indexing configuration requires the VS Code extension'}")}]

handleResolvePackages(params) ==
    [io |-> FALSE,
     outcomes |-> IF params = Undefined THEN {Resolve("{note:'Resolving SPM dependencies'}")}
                  ELSE IF params = ArgsBadType
                  THEN {Reject("params.project.endsWith is not a function")}
                  ELSE {Resolve("{note:'You can resolve packages by running this command in terminal'}")}]

handleGetState(args) ==
    [io |-> FALSE,
     outcomes |-> IF args = ArgsBadType
                  THEN {Reject("Failed to get state: The \"path\" argument must be of type string")}
                  ELSE {Resolve("{hasState:false}"), Resolve("{hasState:true}"),
                        Reject("Failed to get state: Failed to read state file: Unexpected token")}]

\* handler(params.arguments) for the handler function of that name.
Invoke(handler, arguments) ==
    CASE handler = "handleListProjects" -> handleListProjects(arguments)
      [] handler = "handleBuild" -> handleBuild(arguments)
      [] handler = "handleRun" -> handleRun(arguments)
      [] handler = "handleConfigureDebug" -> handleConfigureDebug(arguments)
      [] handler = "handleConfigureIndex" -> handleConfigureIndex(arguments)
      [] handler = "handleResolvePackages" -> handleResolvePackages(arguments)
      [] handler = "handleGetState" -> handleGetState(arguments)

\* Mutant of ErrorMessage: the failure's own message is lost.
ErrorMessageUnknown(failure) == "Unknown error"

\* error instanceof Error ? error.message : 'Unknown error'
ErrorMessage(failure) == IF failure.isError THEN failure.message ELSE "Unknown error"

(***************************************************************************)
(* Resources.  The server registers none; registerResource takes any       *)
(* McpResource and any ResourceHandler, an async function without          *)
(* arguments that settles with a string or with a thrown failure.          *)
(***************************************************************************)
stateResource == [uri |-> "icode://state", name |-> "state", mimeType |-> "application/json"]

\* A resource whose mimeType is left empty.
logResource == [uri |-> "icode://log", name |-> "log", mimeType |-> ""]

ReadOk(text) == [ok |-> TRUE, value |-> text]

\* handler() for the resource handler function of that name.
InvokeResource(handler) ==
    CASE handler = "readState" ->
             [outcomes |-> {ReadOk("{hasState:true}"), Reject("ENOENT: no such file")}]
      [] handler = "readLog" ->
             [outcomes |-> {ReadOk("build log")}]

\* registerResource(resource, handler) on the pair of maps <<resources, resourceHandlers>>.
registerResource(maps, resource, handler) ==
    <<MapSet(maps[1], resource.uri, resource), MapSet(maps[2], resource.uri, handler)>>

(***************************************************************************)
(* Response envelopes and the two output channels.                         *)
(***************************************************************************)
\* Mutant of createSuccessResponse: the id comes from a field set by the first request.
createSuccessResponseStale(id, result) ==
    [jsonrpc |-> "2.0", id |-> IF lines = <<>> THEN id ELSE lines[1].value.id,
     result |-> result]

createSuccessResponse(id, result) == [jsonrpc |-> "2.0", id |-> id, result |-> result]

\* Mutant of createErrorResponse: the envelope also carries an empty result.
createErrorResponseWithResult(id, code, message) ==
    [jsonrpc |-> "2.0", id |-> id, result |-> [content |-> <<>>],
     error |-> [code |-> code, message |-> message, data |-> Undefined]]

createErrorResponse(id, code, message) ==
    [jsonrpc |-> "2.0", id |-> id,
     error |-> [code |-> code, message |-> message, data |-> Undefined]]

\* JSON.stringify(response): a member whose value is undefined is left out.
JSONstringify(response) ==
    IF "error" \in DOMAIN response /\ response.error.data = Undefined
    THEN [response EXCEPT !.error = [code |-> @.code, message |-> @.message]]
    ELSE response

(***************************************************************************)
(* The part of the state a listener works on, as a record io with the      *)
(* fields stdout, stderr, tasks, pending and calls; by is the number of    *)
(* the input line whose listener run is acting (0: the server itself).     *)
(***************************************************************************)
\* The line feeds inside the text JSON.stringify(response) returns: called
\* without an indent it emits none, and it escapes those inside strings.
LineFeeds(response) == 0

\* sendResponse(response): console.log(JSON.stringify(response)).  console.log
\* ends the text with one line feed; lf counts those inside the text.
sendResponse(io, by, response) ==
    [io EXCEPT !.stdout = Append(@, [by |-> by, text |-> JSONstringify(response),
                                     lf |-> LineFeeds(response)])]

\* console.error(text) called by a tool handler: no level, no timestamp.
consoleError(io, by, text) ==
    [io EXCEPT !.stderr = Append(@, [by |-> by, level |-> Undefined, message |-> text])]

\* Mutant of log: the message is written with console.log.
logToStdout(io, by, level, message) ==
    [io EXCEPT !.stdout = Append(@, [by |-> by, level |-> level, message |-> message])]

\* log(level, message): console.error(...)
log(io, by, level, message) ==
    [io EXCEPT !.stderr = Append(@, [by |-> by, level |-> level, message |-> message])]

\* An await: the rest of the listener run is queued as a microtask.  hops is
\* the number of promise hops until the listener itself resumes.
\* Mutant of Suspend: the continuation is queued twice.
SuspendTwice(io, task) == [io EXCEPT !.tasks = Append(Append(@, task), task)]

Suspend(io, task) == [io EXCEPT !.tasks = Append(@, task)]

\* Mutant of SendLater: the response is built but the listener never sends it.
SendLaterDropped(by, hops, response) ==
    [line |-> by, hops |-> hops, resume |-> "return", response |-> response]

SendLater(by, hops, response) ==
    [line |-> by, hops |-> hops, resume |-> "send", response |-> response]

ThrowLater(by, hops) == [line |-> by, hops |-> hops, resume |-> "throw"]

ReturnLater(by, hops) == [line |-> by, hops |-> hops, resume |-> "return"]

\* The promise of a handler that awaits no child process settles on the next hop.
SettleLater(by, id, call) ==
    [line |-> by, hops |-> 1, resume |-> "settle", id |-> id, call |-> call]

\* The catch block of the line listener.
catchBlock(io, by, line) ==
    LET logged == log(io, by, "error", "Failed to process message")
    IN  IF JSONparseThrows(line) THEN logged
        ELSE LET partialRequest == JSONparse(line)
             IN  IF PropertyReadThrows(partialRequest) THEN logged
                 ELSE IF TruthyId(partialRequest.id)
                 THEN sendResponse(logged, by,
                          createErrorResponse(partialRequest.id, ParseError,
                                              "Failed to parse request"))
                 ELSE logged

\* Mutant of handleNotification: a cancellation drops the handlers in flight.
handleNotificationAborting(io, by, message) ==
    CASE message.method = "notifications/initialized" ->
             log(io, by, "info", "Client initialized")
      [] message.method = "notifications/cancelled" ->
             [log(io, by, "info", "Request cancelled") EXCEPT !.pending = {}]
      [] OTHER ->
             log(io, by, "debug", "Unknown notification: " \o Str(message.method))

\* handleNotification(message), up to the await on its promise.
handleNotification(io, by, message) ==
    CASE message.method = "notifications/initialized" ->
             log(io, by, "info", "Client initialized")
      [] message.method = "notifications/cancelled" ->
             log(io, by, "info", "Request cancelled")
      [] OTHER ->
             log(io, by, "debug", "Unknown notification: " \o Str(message.method))

\* Mutant of handleInitialize: the answer depends on what was read before.
handleInitializeStateful(id) ==
    createSuccessResponse(id,
        [protocolVersion |-> IF Len(lines) > 0 THEN "2025-03-26" ELSE "2024-11-05",
         capabilities |-> [tools |-> <<>>, resources |-> <<>>],
         serverInfo |-> [name |-> "icode-mcp-server", version |-> "1.0.0"]])

handleInitialize(id) ==
    createSuccessResponse(id,
        [protocolVersion |-> "2024-11-05",
         capabilities |-> [tools |-> <<>>, resources |-> <<>>],
         serverInfo |-> [name |-> "icode-mcp-server", version |-> "1.0.0"]])

handleToolsList(id) == createSuccessResponse(id, [tools |-> MapValues(tools)])

handleResourcesList(id) == createSuccessResponse(id, [resources |-> MapValues(resources)])

\* handleToolCall after `await handler(params.arguments)` has settled with outcome.
toolCallSettled(id, outcome) ==
    IF outcome.ok
    THEN createSuccessResponse(id, outcome.value)
    ELSE createErrorResponse(id, InternalError,
             "Tool execution failed: " \o ErrorMessage(outcome.failure))

\* Mutant of handlerArguments: the handler is called without arguments.
handlerArgumentsNone(params) == Undefined

\* The arguments handleToolCall passes to the handler.
handlerArguments(params) == params.arguments

\* Mutant of toolNameRequired: the missing name is reported as an unknown tool.
toolNameRequiredAsNotFound(id) ==
    createErrorResponse(id, MethodNotFound, "Tool not found: undefined")

\* handleToolCall's answer when params or params.name is missing.
toolNameRequired(id) == createErrorResponse(id, InvalidParams, "Tool name is required")

\* Mutant of toolNotFound: the unknown tool is reported as invalid params.
toolNotFoundAsInvalidParams(id, name) ==
    createErrorResponse(id, InvalidParams, "Tool not found: " \o name)

\* handleToolCall's answer when no handler is registered under the name.
toolNotFound(id, name) ==
    createErrorResponse(id, MethodNotFound, "Tool not found: " \o name)

\* handleToolCall(id, params) up to its await.
handleToolCall(io, by, id, params) ==
    IF ~params.present \/ ~Truthy(params.name)
    THEN Suspend(io, SendLater(by, 2, toolNameRequired(id)))
    ELSE IF ~MapHas(toolHandlers, params.name)
    THEN IF TemplateThrows(params.name)
         THEN \* the template literal throws; handleRequest's catch answers
              Suspend(io, SendLater(by, 2,
                  createErrorResponse(id, InternalError,
                      "Cannot convert object to primitive value")))
         ELSE Suspend(io, SendLater(by, 2, toolNotFound(id, params.name)))
    ELSE LET handler == MapGet(toolHandlers, params.name)
             started == Invoke(handler, handlerArguments(params))
             call == [line |-> by, handler |-> handler,
                      arguments |-> handlerArguments(params)]
             echoed == IF "echo" \in DOMAIN started
                       THEN consoleError(io, by, started.echo) ELSE io
             invoked == [echoed EXCEPT !.calls = Append(@, call)]
         IN  IF started.io
             THEN [invoked EXCEPT !.pending = @ \cup {[line |-> by, id |-> id,
                                                       call |-> Len(invoked.calls)]}]
             ELSE Suspend(invoked, SettleLater(by, id, Len(invoked.calls)))

\* handleResourceRead after `await handler()` has settled with outcome: the
\* resource is looked up again for its mimeType.
resourceReadSettled(id, uri, outcome) ==
    IF outcome.ok
    THEN LET resource == MapGet(resources, uri)
         IN  createSuccessResponse(id,
                 [contents |-> <<[uri |-> uri,
                                  mimeType |-> IF Truthy(resource.mimeType)
                                               THEN resource.mimeType ELSE "text/plain",
                                  text |-> outcome.value]>>])
    ELSE createErrorResponse(id, InternalError,
             "Resource read failed: " \o ErrorMessage(outcome.failure))

\* The promise of a resource handler settles on the next hop.
ReadLater(by, id, uri) ==
    [line |-> by, hops |-> 1, resume |-> "read", id |-> id, uri |-> uri]

\* Mutant of resourceUriRequired: the missing uri is reported as an unknown resource.
resourceUriRequiredAsNotFound(id) ==
    createErrorResponse(id, MethodNotFound, "Resource not found: undefined")

\* handleResourceRead's answer when params or params.uri is missing.
resourceUriRequired(id) ==
    createErrorResponse(id, InvalidParams, "Resource URI is required")

\* handleResourceRead(id, params) up to its await.
handleResourceRead(io, by, id, params) ==
    IF ~params.present \/ ~Truthy(params.uri)
    THEN Suspend(io, SendLater(by, 2, resourceUriRequired(id)))
    ELSE IF ~MapHas(resourceHandlers, params.uri)
    THEN IF TemplateThrows(params.uri)
         THEN \* the template literal throws; handleRequest's catch answers
              Suspend(io, SendLater(by, 2,
                  createErrorResponse(id, InternalError,
                      "Cannot convert object to primitive value")))
         ELSE Suspend(io, SendLater(by, 2,
                  createErrorResponse(id, MethodNotFound,
                      "Resource not found: " \o params.uri)))
    ELSE Suspend(io, ReadLater(by, id, params.uri))

\* handleRequest(request) up to its first await.
handleRequest(io, by, request) ==
    IF TemplateThrows(request.method)
    THEN \* the log line before the try throws: the promise rejects
         Suspend(io, ThrowLater(by, 1))
    ELSE LET logged == log(io, by, "debug", "Received request: " \o Str(request.method))
         IN  CASE request.method = "initialize" ->
                      Suspend(logged, SendLater(by, 1, handleInitialize(request.id)))
               [] request.method = "tools/list" ->
                      Suspend(logged, SendLater(by, 1, handleToolsList(request.id)))
               [] request.method = "tools/call" ->
                      handleToolCall(logged, by, request.id, request.params)
               [] request.method = "resources/list" ->
                      Suspend(logged, SendLater(by, 1, handleResourcesList(request.id)))
               [] request.method = "resources/read" ->
                      handleResourceRead(logged, by, request.id, request.params)
               [] OTHER ->
                      Suspend(logged, SendLater(by, 1,
                          createErrorResponse(request.id, MethodNotFound,
                              "Method not found: " \o Str(request.method))))

\* The 'line' listener, from JSON.parse(line) up to its first await.
lineListener(io, by, line) ==
    IF JSONparseThrows(line) THEN catchBlock(io, by, line)
    ELSE LET message == JSONparse(line)
         IN  IF hasOwnPropertyThrows(message) THEN catchBlock(io, by, line)
             ELSE IF ~hasOwnProperty_id(message)
             THEN IF TemplateThrows(message.method) THEN catchBlock(io, by, line)
                  ELSE Suspend(
                           handleNotification(
                               log(io, by, "debug",
                                   "Received notification: " \o Str(message.method)),
                               by, message),
                           ReturnLater(by, 1))
             ELSE handleRequest(io, by, message)

\* The handler's promise has settled with outcome: handleToolCall continues
\* after its await and its response travels back to the listener.
handlerSettled(io, by, id, call, outcome) ==
    Suspend([io EXCEPT !.calls[call] = [outcome |-> outcome] @@ @],
            SendLater(by, 2, toolCallSettled(id, outcome)))

\* The listener resumes after its await.
resumeListener(io, task) ==
    CASE task.resume = "send" -> sendResponse(io, task.line, task.response)
      [] task.resume = "throw" -> catchBlock(io, task.line, lines[task.line])
      [] task.resume = "return" -> io

(***************************************************************************)
(* The input lines the model feeds the server.  A protocol session mixes   *)
(* every kind of line the listener tells apart with calls of two tools,    *)
(* one that waits for a child process and one that does not; a tool        *)
(* session calls every registered tool with every shape of arguments its   *)
(* handler tells apart.                                                    *)
(***************************************************************************)
Notifications ==
    {JsonLine(JsonObject(NoId, m, NoParams, FALSE)) :
        m \in {"notifications/initialized", "notifications/cancelled", Undefined,
               Unprintable}}
    \cup {JsonLine(JsonObject(NoId, "tools/call", ToolParams("get_state", Undefined), FALSE)),
          JsonLine(JsonNull)}

PlainRequests ==
    {JsonLine(JsonObject(1, m, NoParams, FALSE)) :
        m \in {"initialize", "tools/list", "resources/list", "resources/read",
               "tools/call", "foo", Undefined}}
    \cup {JsonLine(JsonObject(0, "initialize", NoParams, FALSE))}

OddRequests ==
    {JsonLine(JsonObject(id, "initialize", NoParams, TRUE)) : id \in {0, 5}}
    \cup {JsonLine(JsonObject(5, Unprintable, NoParams, FALSE))}

ResourceReads ==
    {JsonLine(JsonObject(1, "resources/read", UriParams(u), FALSE)) :
        u \in {"", "icode://state"}}

ProtocolLines ==
    {InvalidJson(NoId), InvalidJson(5)} \cup Notifications \cup PlainRequests
    \cup OddRequests \cup ResourceReads
    \cup {JsonLine(JsonObject(5, "tools/call", ToolParams("build", ArgsFull), FALSE)),
          JsonLine(JsonObject(5, "tools/call", ToolParams("get_state", Undefined), FALSE))}

ToolCallLines ==
    {JsonLine(JsonObject(1, "tools/call", ToolParams(n, Undefined), FALSE)) :
        n \in {Undefined, "", "does_not_exist", Unprintable, "list_projects", "build",
               "run", "configure_debug", "configure_index", "resolve_packages",
               "get_state"}}
    \cup {JsonLine(JsonObject(1, "tools/call", ToolParams(n, ArgsFull), FALSE)) :
              n \in {"build", "resolve_packages"}}
    \cup {JsonLine(JsonObject(1, "tools/call", ToolParams(n, ArgsBadType), FALSE)) :
              n \in {"build", "resolve_packages", "get_state"}}
    \cup {JsonLine(JsonObject(1, "tools/call", NoParams, FALSE)),
          JsonLine(JsonObject(5, "tools/call", ToolParams("build", ArgsFull), FALSE)),
          JsonLine(JsonObject(5, "tools/list", NoParams, FALSE)),
          JsonLine(JsonObject(NoId, "notifications/cancelled", NoParams, FALSE))}
    \cup {JsonLine(Versioned(v, JsonObject(1, "tools/call",
                                           ToolParams("configure_debug", Undefined), FALSE))) :
              v \in {"1.0", Undefined}}

\* No handler has been called by itself.
NoShell == [tool |-> "none", arguments |-> <<>>, commands |-> <<>>]

(***************************************************************************)
(* The server and its process.                                             *)
(***************************************************************************)
\* Mutant of Init: registerResources() registers the state as a resource.
InitWithStateResource ==
    /\ pc = "main"
    /\ tools = Constructed[1]
    /\ toolHandlers = Constructed[2]
    /\ resources = registerResource(<< <<>>, <<>> >>, stateResource, "readState")[1]
    /\ resourceHandlers = registerResource(<< <<>>, <<>> >>, stateResource, "readState")[2]
    /\ running = FALSE
    /\ listeners = 0
    /\ stdinOpen = TRUE
    /\ exited = FALSE
    /\ exitCode = NoExit
    /\ lines = <<>>
    /\ inChunk = FALSE
    /\ tasks = <<>>
    /\ pending = {}
    /\ calls = <<>>
    /\ stdout = <<>>
    /\ stderr = <<>>
    /\ api = [n \in DOMAIN Registrations |->
                 [op |-> "registerTool", tool |-> Registrations[n][1],
                  handler |-> Registrations[n][2]]]
    /\ shell = NoShell

\* The state after `new ICodeMcpServer()`.
Init ==
    /\ pc = "main"
    /\ tools = Constructed[1]
    /\ toolHandlers = Constructed[2]
    /\ resources = <<>>
    /\ resourceHandlers = <<>>
    /\ running = FALSE
    /\ listeners = 0
    /\ stdinOpen = TRUE
    /\ exited = FALSE
    /\ exitCode = NoExit
    /\ lines = <<>>
    /\ inChunk = FALSE
    /\ tasks = <<>>
    /\ pending = {}
    /\ calls = <<>>
    /\ stdout = <<>>
    /\ stderr = <<>>
    /\ api = [n \in DOMAIN Registrations |->
                 [op |-> "registerTool", tool |-> Registrations[n][1],
                  handler |-> Registrations[n][2]]]
    /\ shell = NoShell

IO == [stdout |-> stdout, stderr |-> stderr, tasks |-> tasks, pending |-> pending,
       calls |-> calls]

\* The listener's effects become the next state.
Becomes(io) ==
    /\ stdout' = io.stdout
    /\ stderr' = io.stderr
    /\ tasks' = io.tasks
    /\ pending' = io.pending
    /\ calls' = io.calls

registries == <<tools, toolHandlers, resources, resourceHandlers>>

\* Mutant of start: the running flag is not consulted.
startUnguarded ==
    /\ running' = TRUE
    /\ stderr' = log(IO, 0, "info", "iCode MCP Server starting...").stderr
    /\ listeners' = listeners + 1

\* start()
start ==
    IF running
    THEN UNCHANGED <<running, listeners, stderr>>
    ELSE /\ running' = TRUE
         /\ stderr' = log(IO, 0, "info", "iCode MCP Server starting...").stderr
         /\ listeners' = listeners + 1

\* stop()
stop ==
    /\ running' = FALSE
    /\ stderr' = log(IO, 0, "info", "Stopping iCode MCP Server...").stderr

\* The entry point constructs the server and calls start() once.
Main ==
    /\ pc = "main"
    /\ pc' = "serving"
    /\ start
    /\ api' = Append(api, [op |-> "start", running |-> running])
    /\ UNCHANGED <<registries, stdinOpen, exited, exitCode, lines, inChunk, tasks,
                   pending, calls, stdout, shell>>

\* Every readline interface attached to stdin emits the line to its listener,
\* in the order the interfaces were created.
RECURSIVE Emit(_, _, _, _)
Emit(io, n, by, line) ==
    IF n = 0 THEN io ELSE lineListener(Emit(io, n - 1, by, line), by, line)

\* Mutant of OnLine: no line is read while a tool handler is pending.
OnLineBlocking(input) ==
    /\ pc = "serving" /\ ~exited /\ stdinOpen
    /\ Len(lines) < MaxLines
    /\ pending = {}
    /\ tasks = <<>> \/ inChunk
    /\ listeners > 1 => tasks = <<>>
    /\ \E line \in input :
          LET after == Emit(IO, listeners, Len(lines) + 1, line)
          IN  /\ lines' = Append(lines, line)
              /\ inChunk' = (after.tasks # <<>> /\ listeners = 1)
              /\ Becomes(after)
    /\ UNCHANGED <<pc, registries, running, listeners, stdinOpen, exited, exitCode, api, shell>>

\* readline emits the next input line to the listener.  Lines of one chunk are
\* emitted back to back; a new chunk arrives only when no microtask is queued.
\* With several interfaces on stdin each emits a whole chunk before the next
\* one does: the model then feeds one line per chunk.
OnLine(input) ==
    /\ pc = "serving" /\ ~exited /\ stdinOpen
    /\ Len(lines) < MaxLines
    /\ tasks = <<>> \/ inChunk
    /\ listeners > 1 => tasks = <<>>
    /\ \E line \in input :
          LET after == Emit(IO, listeners, Len(lines) + 1, line)
          IN  /\ lines' = Append(lines, line)
              /\ inChunk' = (after.tasks # <<>> /\ listeners = 1)
              /\ Becomes(after)
    /\ UNCHANGED <<pc, registries, running, listeners, stdinOpen, exited, exitCode, api, shell>>

\* The event loop runs the oldest microtask.  A promise hop only lets the
\* microtasks queued behind it run first: with none behind it, the remaining
\* hops follow at once.
RunMicrotask ==
    /\ ~exited /\ tasks # <<>>
    /\ LET task == Head(tasks)
           rest == [IO EXCEPT !.tasks = Tail(tasks)]
       IN  IF task.hops > 1 /\ Len(tasks) > 1
           THEN Becomes(Suspend(rest, [task EXCEPT !.hops = @ - 1]))
           ELSE IF task.resume = "settle"
           THEN \E outcome \in Invoke(calls[task.call].handler,
                                       calls[task.call].arguments).outcomes :
                    Becomes(handlerSettled(rest, task.line, task.id, task.call, outcome))
           ELSE IF task.resume = "read"
           THEN \E outcome \in InvokeResource(MapGet(resourceHandlers, task.uri)).outcomes :
                    Becomes(Suspend(rest, SendLater(task.line, 2,
                                resourceReadSettled(task.id, task.uri, outcome))))
           ELSE Becomes(resumeListener(rest, task))
    /\ inChunk' = FALSE
    /\ UNCHANGED <<pc, registries, running, listeners, stdinOpen, exited, exitCode, lines,
                   api, shell>>

\* The child process of a pending handler ends (exit, error, timeout or
\* buffer overflow) and the handler's promise settles.
IOComplete ==
    /\ ~exited /\ tasks = <<>>
    /\ \E p \in pending :
          \E outcome \in Invoke(calls[p.call].handler, calls[p.call].arguments).outcomes :
              Becomes(handlerSettled([IO EXCEPT !.pending = @ \ {p}],
                                     p.line, p.id, p.call, outcome))
    /\ inChunk' = FALSE
    /\ UNCHANGED <<pc, registries, running, listeners, stdinOpen, exited, exitCode, lines,
                   api, shell>>

\* SIGINT or SIGTERM: server.stop(); process.exit(0)
Signal ==
    /\ pc = "serving" /\ ~exited /\ tasks = <<>>
    /\ stop
    /\ exited' = TRUE
    /\ exitCode' = 0
    /\ UNCHANGED <<pc, registries, listeners, stdinOpen, lines, inChunk, tasks, pending,
                   calls, stdout, api, shell>>

\* Mutant of Close: the close listener logs but leaves the running flag set.
CloseStillRunning ==
    /\ pc = "serving" /\ ~exited /\ stdinOpen
    /\ tasks = <<>> \/ inChunk
    /\ stdinOpen' = FALSE
    /\ stderr' = log(IO, 0, "info", "iCode MCP Server stopped").stderr
    /\ UNCHANGED <<pc, registries, running, listeners, exited, exitCode, lines, inChunk,
                   tasks, pending, calls, stdout, api, shell>>

\* The input stream ends: readline emits 'close'.
Close ==
    /\ pc = "serving" /\ ~exited /\ stdinOpen
    /\ tasks = <<>> \/ inChunk
    /\ stdinOpen' = FALSE
    /\ running' = FALSE
    /\ stderr' = log(IO, 0, "info", "iCode MCP Server stopped").stderr
    /\ UNCHANGED <<pc, registries, listeners, exited, exitCode, lines, inChunk, tasks,
                   pending, calls, stdout, api, shell>>

\* Mutant of ProcessEnd: the process ends with stdin, whatever is pending.
ProcessEndAtClose ==
    /\ pc = "serving" /\ ~exited /\ ~stdinOpen
    /\ tasks = <<>>
    /\ exited' = TRUE
    /\ exitCode' = 0
    /\ UNCHANGED <<pc, registries, running, listeners, stdinOpen, lines, inChunk, tasks,
                   pending, calls, stdout, stderr, api, shell>>

\* With stdin closed and nothing left to wait for, the process ends by itself.
ProcessEnd ==
    /\ pc = "serving" /\ ~exited /\ ~stdinOpen
    /\ tasks = <<>> /\ pending = {}
    /\ exited' = TRUE
    /\ exitCode' = 0
    /\ UNCHANGED <<pc, registries, running, listeners, stdinOpen, lines, inChunk, tasks,
                   pending, calls, stdout, stderr, api, shell>>

\* A protocol session.
Next ==
    \/ Main
    \/ OnLine(ProtocolLines)
    \/ RunMicrotask
    \/ IOComplete
    \/ Signal
    \/ Close
    \/ ProcessEnd

Spec == Init /\ [][Next]_vars

\* The event loop runs every queued microtask, every child process a handler
\* waits for ends (by itself, on an error, or on its timeout), and the runtime
\* ends the process once nothing is left to wait for.
FairSpec ==
    Spec /\ WF_vars(RunMicrotask) /\ WF_vars(IOComplete) /\ WF_vars(ProcessEnd)

\* A tool session.
ToolNext ==
    \/ Main
    \/ OnLine(ToolCallLines)
    \/ RunMicrotask
    \/ IOComplete
    \/ Signal
    \/ Close
    \/ ProcessEnd

ToolSpec == Init /\ [][ToolNext]_vars

(***************************************************************************)
(* The server object used by an embedding program, which registers further *)
(* tools before it starts the server and may call start() again while the  *)
(* server reads its input.                                                 *)
(***************************************************************************)
Registrable ==
    {[tool |-> [name |-> "get_state", required |-> <<"path">>],
      handler |-> "handleListProjects"],
     [tool |-> [name |-> "extra", required |-> <<>>], handler |-> "handleConfigureDebug"],
     [tool |-> [name |-> "extra", required |-> <<"x">>], handler |-> "handleGetState"]}

ApiLines ==
    {JsonLine(JsonObject(1, "tools/list", NoParams, FALSE)),
     JsonLine(JsonObject(5, "tools/call", ToolParams("get_state", Undefined), FALSE)),
     JsonLine(JsonObject(1, "tools/call", ToolParams("extra", Undefined), FALSE))}

\* The registerTool and the start() calls made so far.
RegisterCalls == {n \in DOMAIN api : api[n].op = "registerTool"}

StartCalls == {n \in DOMAIN api : api[n].op = "start"}

\* registerTool(tool, handler), called before the server is started.
Register ==
    /\ pc = "main"
    /\ Cardinality(RegisterCalls) < Len(Registrations) + MaxRegistrations
    /\ \E r \in Registrable :
          LET maps == registerTool(<<tools, toolHandlers>>, r.tool, r.handler)
          IN  /\ tools' = maps[1]
              /\ toolHandlers' = maps[2]
              /\ api' = Append(api, [op |-> "registerTool", tool |-> r.tool,
                                     handler |-> r.handler])
    /\ UNCHANGED <<pc, resources, resourceHandlers, running, listeners, stdinOpen, exited,
                   exitCode, lines, inChunk, tasks, pending, calls, stdout, stderr, shell>>

\* start() called again, between two events, while stdin is open.
StartAgain ==
    /\ pc = "serving" /\ ~exited /\ stdinOpen /\ tasks = <<>>
    /\ Cardinality(StartCalls) < MaxStarts
    /\ start
    /\ api' = Append(api, [op |-> "start", running |-> running])
    /\ UNCHANGED <<pc, registries, stdinOpen, exited, exitCode, lines, inChunk, tasks,
                   pending, calls, stdout, shell>>

ApiNext ==
    \/ Register
    \/ Main
    \/ StartAgain
    \/ OnLine(ApiLines)
    \/ RunMicrotask
    \/ IOComplete
    \/ Close

ApiSpec == Init /\ [][ApiNext]_vars

(***************************************************************************)
(* A resource session: an embedding program registers resources before it  *)
(* starts the server, and the client lists and reads them.                 *)
(***************************************************************************)
RegistrableResources ==
    {[resource |-> stateResource, handler |-> "readState"],
     [resource |-> logResource, handler |-> "readLog"]}

ResourceLines ==
    {JsonLine(JsonObject(1, "resources/read", UriParams(u), FALSE)) :
        u \in {Undefined, "", "icode://none", Unprintable, "icode://state", "icode://log"}}
    \cup {JsonLine(JsonObject(1, "resources/read", NoParams, FALSE)),
          JsonLine(JsonObject(5, "resources/list", NoParams, FALSE))}

ResourceCalls == {n \in DOMAIN api : api[n].op = "registerResource"}

\* registerResource(resource, handler), called before the server is started.
RegisterResource ==
    /\ pc = "main"
    /\ Cardinality(ResourceCalls) < MaxRegistrations
    /\ \E r \in RegistrableResources :
          LET maps == registerResource(<<resources, resourceHandlers>>, r.resource, r.handler)
          IN  /\ resources' = maps[1]
              /\ resourceHandlers' = maps[2]
              /\ api' = Append(api, [op |-> "registerResource", resource |-> r.resource,
                                     handler |-> r.handler])
    /\ UNCHANGED <<pc, tools, toolHandlers, running, listeners, stdinOpen, exited,
                   exitCode, lines, inChunk, tasks, pending, calls, stdout, stderr, shell>>

ResourceNext ==
    \/ RegisterResource
    \/ Main
    \/ OnLine(ResourceLines)
    \/ RunMicrotask
    \/ Close

ResourceSpec == Init /\ [][ResourceNext]_vars

(***************************************************************************)
(* A lifecycle session: an embedding program calls stop() and start() on   *)
(* the running server between two events of the loop.  stop() leaves the   *)
(* readline interface in place, so a later start() creates another one on  *)
(* the same stdin.                                                         *)
(***************************************************************************)
LifeLines ==
    {JsonLine(JsonObject(1, "tools/list", NoParams, FALSE)),
     JsonLine(JsonObject(5, "tools/call", ToolParams("configure_debug", Undefined), FALSE)),
     JsonLine(JsonObject(NoId, "notifications/initialized", NoParams, FALSE))}

StopCalls == {n \in DOMAIN api : api[n].op = "stop"}

\* Mutant of Stop: stopping the server also empties its tool registry.
StopClearing ==
    /\ pc = "serving" /\ ~exited /\ tasks = <<>>
    /\ Cardinality(StopCalls) < MaxStops
    /\ stop
    /\ tools' = <<>>
    /\ toolHandlers' = <<>>
    /\ api' = Append(api, [op |-> "stop", lines |-> Len(lines)])
    /\ UNCHANGED <<pc, resources, resourceHandlers, listeners, stdinOpen, exited, exitCode,
                   lines, inChunk, tasks, pending, calls, stdout, shell>>

\* stop() called between two events; the call is logged with the number of
\* input lines read before it.
Stop ==
    /\ pc = "serving" /\ ~exited /\ tasks = <<>>
    /\ Cardinality(StopCalls) < MaxStops
    /\ stop
    /\ api' = Append(api, [op |-> "stop", lines |-> Len(lines)])
    /\ UNCHANGED <<pc, registries, listeners, stdinOpen, exited, exitCode, lines, inChunk,
                   tasks, pending, calls, stdout, shell>>

LifeNext ==
    \/ Main
    \/ Stop
    \/ StartAgain
    \/ OnLine(LifeLines)
    \/ RunMicrotask
    \/ Close

LifeSpec == Init /\ [][LifeNext]_vars

(***************************************************************************)
(* A build session.  exec starts xcodebuild with a timeout of ten minutes: *)
(* when the timer fires the child is killed and the promise rejects,       *)
(* whatever the child does.  Nothing else is assumed of the child.         *)
(***************************************************************************)
BuildLines ==
    {JsonLine(JsonObject(5, "tools/call", ToolParams("build", ArgsFull), FALSE)),
     JsonLine(JsonObject(1, "tools/call", ToolParams("build", Undefined), FALSE)),
     JsonLine(JsonObject(1, "tools/call", ToolParams("list_projects", Undefined), FALSE)),
     JsonLine(JsonObject(1, "tools/list", NoParams, FALSE))}

\* Mutant of BuildTimeout: exec is called without a timeout.
BuildTimeoutNever ==
    /\ FALSE
    /\ UNCHANGED vars

\* The timeout of a pending build expires: exec kills xcodebuild and rejects.
BuildTimeout ==
    /\ ~exited /\ tasks = <<>>
    /\ \E p \in pending :
          /\ calls[p.call].handler = "handleBuild"
          /\ Becomes(handlerSettled([IO EXCEPT !.pending = @ \ {p}],
                                    p.line, p.id, p.call, execFailed))
    /\ inChunk' = FALSE
    /\ UNCHANGED <<pc, registries, running, listeners, stdinOpen, exited, exitCode, lines,
                   api, shell>>

TimeoutNext ==
    \/ Main
    \/ OnLine(BuildLines)
    \/ RunMicrotask
    \/ BuildTimeout
    \/ IOComplete
    \/ Signal
    \/ Close
    \/ ProcessEnd

\* The event loop runs every queued microtask and every armed timer fires;
\* a child process may run forever.
TimeoutSpec == Init /\ [][TimeoutNext]_vars /\ WF_vars(RunMicrotask) /\ WF_vars(BuildTimeout)

(***************************************************************************)
(* The command lines the handlers hand to exec, which runs them with       *)
(* /bin/sh -c.  A text is a sequence of pieces: a piece is one of the      *)
(* characters the shell gives a meaning to, a command substitution, or a   *)
(* run of ordinary characters.  The handlers build their command by        *)
(* putting the argument texts between fixed pieces; the shell splits the   *)
(* result into tokens.                                                     *)
(***************************************************************************)
ShellPieces == {"a", " ", "\"", "'", ";", "$(id)", "platform=", ".xcworkspace"}

\* The argument texts of up to MaxArgLen pieces.
ArgTexts == UNION {[1..k -> ShellPieces] : k \in 0..MaxArgLen}

\* string.endsWith(piece) and string.startsWith(piece)
EndsWith(text, piece) == text # <<>> /\ text[Len(text)] = piece

StartsWith(text, piece) == text # <<>> /\ text[1] = piece

\* handleBuild: the command it builds, or none when a required argument is
\* missing (an empty string is falsy) and it throws before exec.
BuildCommands(arguments) ==
    IF arguments.project = <<>> \/ arguments.scheme = <<>> \/ arguments.destination = <<>>
    THEN <<>>
    ELSE LET configuration == IF arguments.configuration = <<>> THEN <<"Debug">>
                              ELSE arguments.configuration
             flag == IF EndsWith(arguments.project, ".xcworkspace")
                     THEN "-workspace" ELSE "-project"
             dest == IF StartsWith(arguments.destination, "platform=")
                     THEN arguments.destination
                     ELSE <<"platform=iOS", " ", "Simulator,id=">> \o arguments.destination
         IN  << <<"xcodebuild", " ", flag, " ", "\"">> \o arguments.project
                \o <<"\"", " ", "-scheme", " ", "\"">> \o arguments.scheme
                \o <<"\"", " ", "-configuration", " ">> \o configuration
                \o <<" ", "-destination", " ", "'">> \o dest
                \o <<"'", " ", "-skipPackageUpdates", " ", "build">> >>

\* findXcodeProjects(dir): the two find commands, for workspaces and projects.
FindCommand(dir, pattern) ==
    <<"find", " ", "\"">> \o dir
    \o <<"\"", " ", "-name", " ", "\"", pattern, "\"", " ", "-not", " ", "-path", " ",
         "\"", "*/Pods/*", "\"", " ", "-type", " ", "d">>

\* handleListProjects: params?.directory || process.cwd()
ListCommands(arguments) ==
    LET dir == IF arguments.directory = <<>> THEN <<"/cwd">> ELSE arguments.directory
    IN  <<FindCommand(dir, "*.xcworkspace"), FindCommand(dir, "*.xcodeproj")>>

\* handleRun: getOpenCommand for the platform; it takes no argument.
RunCommands(platform) ==
    LET cursorUri == "cursor://command/icode.run"
        vscodeUri == "vscode://command/icode.run"
    IN  CASE platform = "darwin" ->
                 << <<"open", " ", "-a", " ", "\"", "Cursor", "\"", " ", "\"", cursorUri, "\"",
                      " ", "||", " ",
                      "open", " ", "-a", " ", "\"", "Cursor", "\"", " ", "\"", vscodeUri, "\"",
                      " ", "||", " ",
                      "open", " ", "-a", " ", "\"", "Visual", " ", "Studio", " ", "Code", "\"",
                      " ", "\"", vscodeUri, "\"",
                      " ", "||", " ", "open", " ", "\"", cursorUri, "\"",
                      " ", "||", " ", "open", " ", "\"", vscodeUri, "\"">> >>
          [] platform = "win32" ->
                 << <<"start", " ", "\"", "\"", " ", "\"", cursorUri, "\"", " ", "||", " ",
                      "start", " ", "\"", "\"", " ", "\"", vscodeUri, "\"">> >>
          [] platform = "linux" ->
                 << <<"xdg-open", " ", "\"", cursorUri, "\"", " ", "||", " ",
                      "xdg-open", " ", "\"", vscodeUri, "\"">> >>
          [] OTHER -> <<>>

\* The tokens /bin/sh reads from a command line: words, the operators ; and
\* ||, command substitutions (which it runs), and the error of a quote left
\* open.  Inside double quotes a substitution is still performed; inside
\* single quotes every piece is literal.
RECURSIVE ShellTokens(_, _, _, _, _)
ShellTokens(command, n, mode, inWord, out) ==
    LET closed == IF inWord THEN Append(out, "WORD") ELSE out
    IN  IF n > Len(command)
        THEN IF mode = "plain" THEN closed ELSE Append(closed, "UNTERMINATED QUOTE")
        ELSE LET c == command[n]
             IN  CASE mode = "plain" /\ c = " " ->
                          ShellTokens(command, n + 1, "plain", FALSE, closed)
                   [] mode = "plain" /\ c \in {";", "||"} ->
                          ShellTokens(command, n + 1, "plain", FALSE, Append(closed, c))
                   [] mode = "plain" /\ c = "\"" ->
                          ShellTokens(command, n + 1, "double", TRUE, out)
                   [] mode = "plain" /\ c = "'" ->
                          ShellTokens(command, n + 1, "single", TRUE, out)
                   [] mode = "double" /\ c = "\"" ->
                          ShellTokens(command, n + 1, "plain", TRUE, out)
                   [] mode = "single" /\ c = "'" ->
                          ShellTokens(command, n + 1, "plain", TRUE, out)
                   [] mode \in {"plain", "double"} /\ c = "$(id)" ->
                          ShellTokens(command, n + 1, mode, TRUE, Append(out, "SUBSTITUTION"))
                   [] OTHER ->
                          ShellTokens(command, n + 1, mode, TRUE, out)

Tokens(command) == ShellTokens(command, 1, "plain", FALSE, <<>>)

\* Arguments without any piece the shell gives a meaning to.
PlainBuildArguments ==
    [project |-> <<"a">>, scheme |-> <<"a">>, destination |-> <<"platform=", "a">>,
     configuration |-> <<>>]

PlainListArguments == [directory |-> <<"a">>]

\* The build arguments that differ from the plain ones in one argument.
BuildArguments ==
    {[PlainBuildArguments EXCEPT ![f] = t] :
        f \in {"project", "scheme", "destination", "configuration"}, t \in ArgTexts}

\* handleBuild(arguments) called by itself.
CallBuild ==
    /\ shell = NoShell
    /\ \E arguments \in BuildArguments :
          shell' = [tool |-> "build", arguments |-> arguments,
                    commands |-> BuildCommands(arguments)]
    /\ UNCHANGED <<pc, registries, running, listeners, stdinOpen, exited, exitCode, lines,
                   inChunk, tasks, pending, calls, stdout, stderr, api>>

\* handleListProjects(arguments) called by itself.
CallListProjects ==
    /\ shell = NoShell
    /\ \E t \in ArgTexts :
          shell' = [tool |-> "list_projects", arguments |-> [directory |-> t],
                    commands |-> ListCommands([directory |-> t])]
    /\ UNCHANGED <<pc, registries, running, listeners, stdinOpen, exited, exitCode, lines,
                   inChunk, tasks, pending, calls, stdout, stderr, api>>

\* handleRun() called by itself, on some platform.
CallRun ==
    /\ shell = NoShell
    /\ \E platform \in {"darwin", "win32", "linux", "aix"} :
          shell' = [tool |-> "run", arguments |-> platform,
                    commands |-> RunCommands(platform)]
    /\ UNCHANGED <<pc, registries, running, listeners, stdinOpen, exited, exitCode, lines,
                   inChunk, tasks, pending, calls, stdout, stderr, api>>

ShellNext ==
    \/ CallBuild
    \/ CallListProjects
    \/ CallRun

ShellSpec == Init /\ [][ShellNext]_vars

(***************************************************************************)
(* Vocabulary of the properties.  Input lines are numbered as they are     *)
(* read; every stdout and stderr entry records in `by` the line whose      *)
(* listener run wrote it.                                                  *)
(***************************************************************************)
LineNumbers == 1..MaxLines

Received(i) == i \in DOMAIN lines

\* The line parses as a JSON object that has an id.
IsObjectWithId(i) ==
    /\ lines[i].valid
    /\ lines[i].value.shape = "object"
    /\ lines[i].value.id # NoId

\* The line is a request: a JSON object with an id whose members are those of
\* McpRequest (jsonrpc, id, method, params) and no others.
IsRequest(i) == IsObjectWithId(i) /\ ~lines[i].value.shadow

\* The line parses as JSON and has no id field.
IsNotification(i) == lines[i].valid /\ lines[i].value.id = NoId

KnownMethods == {"initialize", "tools/list", "tools/call", "resources/list", "resources/read"}

MethodOf(i) == lines[i].value.method

ParamsOf(i) == lines[i].value.params

\* The stdout lines written by the listener run of line i.
ResponsesTo(i) == {k \in DOMAIN stdout : stdout[k].by = i}

\* The stdout lines written for line i that carry its id.
ResponsesWithIdOf(i) == {k \in ResponsesTo(i) : stdout[k].text.id = lines[i].value.id}

CallsBy(i) == {c \in DOMAIN calls : calls[c].line = i}

\* The listener run of line i has ended: nothing of it is queued or pending.
Finished(i) ==
    /\ Received(i)
    /\ \A t \in DOMAIN tasks : tasks[t].line # i
    /\ \A p \in pending : p.line # i

\* A termination signal has ended the process (only stop() writes this log line).
Signalled ==
    exited /\ \E k \in DOMAIN stderr : stderr[k].message = "Stopping iCode MCP Server..."

IsErrorResponse(text, code) ==
    /\ "error" \in DOMAIN text
    /\ "result" \notin DOMAIN text
    /\ text.error.code = code

\* Line i is a request that got exactly one answer, an error with this code,
\* or is still being handled and has written nothing.
AnsweredWithError(i, code) ==
    /\ \A k \in ResponsesTo(i) : IsErrorResponse(stdout[k].text, code)
    /\ Cardinality(ResponsesWithIdOf(i)) = IF Finished(i) THEN 1 ELSE 0

\* Line i is a request with a known method that does not have exactly one
\* response line with its id on stdout.
Owed(i) ==
    /\ IsRequest(i) /\ MethodOf(i) \in KnownMethods
    /\ Cardinality(ResponsesWithIdOf(i)) # 1

C2_NotificationsWriteNothing ==
    \A i \in DOMAIN lines :
        IsNotification(i) =>
            /\ ResponsesTo(i) = {}
            /\ CallsBy(i) = {}
            /\ \A p \in pending : p.line # i
            /\ \E k \in DOMAIN stderr : stderr[k].by = i

\* A cancellation notification was handled, and so was a notification whose
\* handling failed (the catch block logged it).
C2_Witness ==
    /\ \E i \in DOMAIN lines :
          IsNotification(i) /\ Finished(i) /\ MethodOf(i) = "notifications/cancelled"
    /\ \E j \in DOMAIN lines :
          /\ IsNotification(j) /\ Finished(j)
          /\ \E k \in DOMAIN stderr : stderr[k].by = j /\ stderr[k].level = "error"

(***************************************************************************)
(* C3.  Every response on stdout carries the id of the input line whose    *)
(* handling wrote it, and that line has an id, also with several requests  *)
(* in flight.                                                              *)
(***************************************************************************)
C3_ResponseIdIsRequestId ==
    \A k \in DOMAIN stdout :
        /\ stdout[k].by \in DOMAIN lines
        /\ lines[stdout[k].by].valid
        /\ lines[stdout[k].by].value.id # NoId
        /\ stdout[k].text.id = lines[stdout[k].by].value.id

\* Two requests with different ids were in flight together and were answered
\* in the opposite order; the first answer is a success.
C3_Witness ==
    /\ Len(stdout) = 2
    /\ stdout[1].by = 2 /\ stdout[2].by = 1
    /\ lines[1].value.id # lines[2].value.id
    /\ "result" \in DOMAIN stdout[1].text

(***************************************************************************)
(* C4.  Every response on stdout carries exactly one of result and error.  *)
(***************************************************************************)
C4_ResultXorError ==
    \A k \in DOMAIN stdout :
        ("result" \in DOMAIN stdout[k].text) # ("error" \in DOMAIN stdout[k].text)

\* A handler resolved and a handler failed, and both calls were answered.
C4_Witness ==
    /\ \E c \in DOMAIN calls :
          /\ "outcome" \in DOMAIN calls[c] /\ calls[c].outcome.ok
          /\ \E k \in ResponsesTo(calls[c].line) : "result" \in DOMAIN stdout[k].text
    /\ \E c \in DOMAIN calls :
          /\ "outcome" \in DOMAIN calls[c] /\ ~calls[c].outcome.ok
          /\ \E k \in ResponsesTo(calls[c].line) : "error" \in DOMAIN stdout[k].text

(***************************************************************************)
(* C5 (as stated).  A line that fails JSON parsing and shows an id in its  *)
(* text gets one response with that id and error.code = -32700; a line     *)
(* that fails parsing and shows no id gets no output line.  (The listener  *)
(* handles such a line without awaiting, so the response would be on       *)
(* stdout as soon as the line has been read.)                              *)
(***************************************************************************)
C5_ParseErrorSalvagesId ==
    \A i \in DOMAIN lines :
        ~lines[i].valid =>
            IF lines[i].frag # NoId
            THEN /\ Cardinality(ResponsesTo(i)) = 1
                 /\ \A k \in ResponsesTo(i) :
                        /\ stdout[k].text.id = lines[i].frag
                        /\ IsErrorResponse(stdout[k].text, ParseError)
            ELSE ResponsesTo(i) = {}

(***************************************************************************)
(* C6.  A tools/call request whose params is absent or whose params.name   *)
(* is missing is answered with error.code = -32602, exactly once, and      *)
(* invokes no tool handler.                                                *)
(***************************************************************************)
C6_MissingNameIsInvalidParams ==
    \A i \in DOMAIN lines :
        /\ IsRequest(i) /\ MethodOf(i) = "tools/call"
        /\ ~ParamsOf(i).present \/ ParamsOf(i).name = Undefined
        => /\ AnsweredWithError(i, InvalidParams)
           /\ CallsBy(i) = {}

\* Both shapes were answered: params absent, and params present without a name.
C6_Witness ==
    /\ \E i \in DOMAIN lines :
          /\ IsRequest(i) /\ MethodOf(i) = "tools/call" /\ ~ParamsOf(i).present
          /\ ResponsesTo(i) # {}
    /\ \E i \in DOMAIN lines :
          /\ IsRequest(i) /\ MethodOf(i) = "tools/call"
          /\ ParamsOf(i).present /\ ParamsOf(i).name = Undefined
          /\ ResponsesTo(i) # {}

(***************************************************************************)
(* C7 (as stated).  A tools/call request whose params.name is present but  *)
(* has no handler registered under it is answered with error.code =        *)
(* -32601 and invokes no tool handler.                                     *)
(***************************************************************************)
C7_PresentUnknownNameIsMethodNotFound ==
    \A i \in DOMAIN lines :
        /\ IsRequest(i) /\ MethodOf(i) = "tools/call"
        /\ ParamsOf(i).present /\ ParamsOf(i).name # Undefined
        /\ ~MapHas(toolHandlers, ParamsOf(i).name)
        => /\ AnsweredWithError(i, MethodNotFound)
           /\ CallsBy(i) = {}

(***************************************************************************)
(* C7 (amended).  A tools/call request whose params.name is a non-empty    *)
(* string with no handler registered under it is answered with             *)
(* error.code = -32601, exactly once, and invokes no tool handler.         *)
(***************************************************************************)
C7_UnknownToolNameIsMethodNotFound ==
    \A i \in DOMAIN lines :
        /\ IsRequest(i) /\ MethodOf(i) = "tools/call"
        /\ ParamsOf(i).present /\ ParamsOf(i).name \notin {Undefined, "", Unprintable}
        /\ ~MapHas(toolHandlers, ParamsOf(i).name)
        => /\ AnsweredWithError(i, MethodNotFound)
           /\ CallsBy(i) = {}

\* A call of "does_not_exist" was answered.
C7_Witness ==
    \E i \in DOMAIN lines :
        /\ IsRequest(i) /\ MethodOf(i) = "tools/call"
        /\ ParamsOf(i).name = "does_not_exist"
        /\ ResponsesTo(i) # {}

(***************************************************************************)
(* Handler invocations that have settled.                                  *)
(***************************************************************************)
Settled(c) == "outcome" \in DOMAIN calls[c]

Failed(c) == Settled(c) /\ ~calls[c].outcome.ok

Succeeded(c) == Settled(c) /\ calls[c].outcome.ok

C9_SuccessResultIsHandlerValue ==
    /\ \A i \in DOMAIN lines :
          /\ IsRequest(i) /\ MethodOf(i) = "tools/call"
          /\ ParamsOf(i).present /\ MapHas(toolHandlers, ParamsOf(i).name)
          => /\ Cardinality(CallsBy(i)) = 1
             /\ \A c \in CallsBy(i) :
                    /\ calls[c].handler = MapGet(toolHandlers, ParamsOf(i).name)
                    /\ calls[c].arguments = ParamsOf(i).arguments
    /\ \A c \in DOMAIN calls :
          Succeeded(c) =>
              /\ Cardinality(ResponsesWithIdOf(calls[c].line)) =
                     IF Finished(calls[c].line) THEN 1 ELSE 0
              /\ \A k \in ResponsesTo(calls[c].line) :
                     /\ "result" \in DOMAIN stdout[k].text
                     /\ "error" \notin DOMAIN stdout[k].text
                     /\ stdout[k].text.result = calls[c].outcome.value

\* get_state was called without arguments and build with arguments; both
\* succeeded and the answer to each holds the text its handler returned.
C9_Witness ==
    /\ \E c \in DOMAIN calls :
          /\ Succeeded(c) /\ calls[c].handler = "handleGetState"
          /\ calls[c].arguments = Undefined
          /\ \E k \in ResponsesTo(calls[c].line) :
                 stdout[k].text.result.content[1].text = "{hasState:false}"
    /\ \E c \in DOMAIN calls :
          /\ Succeeded(c) /\ calls[c].handler = "handleBuild"
          /\ calls[c].arguments = ArgsFull
          /\ ResponsesTo(calls[c].line) # {}

(***************************************************************************)
(* C10.  Every answer to a tools/list request holds all seven tool         *)
(* definitions in registration order, whatever else was handled before or  *)
(* is in flight; so any two tools/list answers hold the same sequence.     *)
(***************************************************************************)
C10_ToolsListInRegistrationOrder ==
    \A k \in DOMAIN stdout :
        IsRequest(stdout[k].by) /\ MethodOf(stdout[k].by) = "tools/list" =>
            /\ "result" \in DOMAIN stdout[k].text
            /\ stdout[k].text.result.tools =
                   <<listProjectsTool, buildTool, runTool, configureDebugTool,
                     configureIndexTool, resolvePackagesTool, getStateTool>>
            /\ [n \in 1..7 |-> stdout[k].text.result.tools[n].name] =
                   <<"list_projects", "build", "run", "configure_debug",
                     "configure_index", "resolve_packages", "get_state">>

\* Two tools/list requests were answered.
C10_Witness ==
    /\ Len(stdout) = 2
    /\ \A k \in {1, 2} :
          IsRequest(stdout[k].by) /\ MethodOf(stdout[k].by) = "tools/list"
    /\ stdout[1].by # stdout[2].by
    /\ stdout[1].text.result = stdout[2].text.result

(***************************************************************************)
(* Registrations, as the calls made on the server object record them.      *)
(***************************************************************************)
RegisteredNames == {api[n].tool.name : n \in RegisterCalls}

\* The last registerTool call made under the name.
LastRegistration(name) ==
    LET named == {n \in RegisterCalls : api[n].tool.name = name}
    IN  api[CHOOSE n \in named : \A m \in named : m <= n]

\* The name was registered more than once.
RegisteredTwice(name) == Cardinality({n \in RegisterCalls : api[n].tool.name = name}) > 1

(***************************************************************************)
(* C11.  Registering a tool under a name already registered overwrites:    *)
(* both maps hold one entry per registered name, that of the last          *)
(* registration; every tools/list answer holds exactly one definition per  *)
(* name, the last one registered; and every tools/call invokes the handler *)
(* registered last under the name it gives.                                *)
(***************************************************************************)
C11_RegisterOverwrites ==
    /\ \A name \in RegisteredNames :
          LET last == LastRegistration(name)
          IN  /\ Cardinality({n \in DOMAIN tools : tools[n].key = name}) = 1
              /\ Cardinality({n \in DOMAIN toolHandlers : toolHandlers[n].key = name}) = 1
              /\ \A n \in DOMAIN tools :
                     tools[n].key = name => tools[n].value = last.tool
              /\ \A n \in DOMAIN toolHandlers :
                     toolHandlers[n].key = name => toolHandlers[n].value = last.handler
              /\ \A k \in DOMAIN stdout :
                     MethodOf(stdout[k].by) = "tools/list" =>
                         LET listed == stdout[k].text.result.tools
                             named == {n \in DOMAIN listed : listed[n].name = name}
                         IN  /\ Cardinality(named) = 1
                             /\ \A n \in named : listed[n] = last.tool
    /\ \A c \in DOMAIN calls :
          calls[c].handler = LastRegistration(ParamsOf(calls[c].line).name).handler

\* get_state was registered again with another definition and another
\* handler; then a tools/list was answered and a tools/call of get_state ran
\* the handler of its last registration.
C11_Witness ==
    /\ RegisteredTwice("get_state")
    /\ Len(tools) = Len(Registrations)
    /\ \E k \in DOMAIN stdout : MethodOf(stdout[k].by) = "tools/list"
    /\ \E c \in DOMAIN calls :
          /\ ParamsOf(calls[c].line).name = "get_state"
          /\ calls[c].handler = "handleListProjects"

(***************************************************************************)
(* C12 (as stated).  A request whose method is anything other than         *)
(* initialize, tools/list, tools/call, resources/list and resources/read,  *)
(* a missing method included, is answered with error.code = -32601,        *)
(* exactly once, and invokes no tool handler.                              *)
(***************************************************************************)
C12_UnknownMethodIsMethodNotFound ==
    \A i \in DOMAIN lines :
        IsRequest(i) /\ MethodOf(i) \notin KnownMethods =>
            /\ AnsweredWithError(i, MethodNotFound)
            /\ CallsBy(i) = {}

(***************************************************************************)
(* C13.  An initialize request is answered exactly once, with a success    *)
(* whose result is the same static value wherever in the session it is     *)
(* sent; and handling it changes no server state: the steps that read it   *)
(* and that answer it leave the registries, the running flag, the          *)
(* listeners, the handler invocations and the continuations of every other *)
(* line as they are, so later requests are answered as without it.         *)
(***************************************************************************)
IsInitialize(i) == IsRequest(i) /\ MethodOf(i) = "initialize"

OthersTasks(queue, i) == SelectSeq(queue, LAMBDA t : t.line # i)

StartupLines == {k \in DOMAIN stderr : stderr[k].message = "iCode MCP Server starting..."}

C14_StartWhileRunningIsNoOp ==
    /\ [][/\ Len(api') = Len(api) + 1
           /\ api'[Len(api')].op = "start"
           /\ running
           => /\ running'
              /\ UNCHANGED <<listeners, stderr, stdout, registries, lines, inChunk, tasks,
                             pending, calls, stdinOpen, exited, exitCode>>]_vars
    /\ [](/\ Cardinality(StartupLines) = Cardinality({n \in StartCalls : ~api[n].running})
          /\ listeners = Cardinality(StartupLines))

\* start() was called while the server was running; the server still runs
\* with its one listener and has answered a request once.
C14_Witness ==
    /\ \E n \in StartCalls : api[n].running
    /\ running /\ listeners = 1 /\ Cardinality(StartupLines) = 1
    /\ \E i \in DOMAIN lines : Finished(i) /\ Cardinality(ResponsesTo(i)) = 1

(***************************************************************************)
(* C15.  Once started the server runs, with its listener attached, for as  *)
(* long as stdin is open and no termination signal has arrived.  When      *)
(* stdin closes running becomes false and the process then ends; a signal  *)
(* stops the server and ends the process at once.  The process ends in no  *)
(* other way, and its exit status is 0.                                    *)
(***************************************************************************)
C15_ServesUntilCloseOrSignalThenExitsZero ==
    /\ [](pc = "serving" /\ stdinOpen /\ ~exited => running /\ listeners = 1)
    /\ [](~stdinOpen => ~running)
    /\ [](IF exited
          THEN exitCode = 0 /\ ~running /\ (~stdinOpen \/ Signalled)
          ELSE exitCode = NoExit)
    /\ [](~stdinOpen => <>exited)

\* stdin closed while a tool handler waited for its child process; the
\* handler settled, its request was answered, and the process ended with
\* status 0 without any signal.
C15_Witness ==
    /\ exited /\ exitCode = 0 /\ ~Signalled /\ ~stdinOpen /\ ~running
    /\ \E c \in DOMAIN calls :
          /\ Settled(c) /\ Invoke(calls[c].handler, calls[c].arguments).io
          /\ ResponsesTo(calls[c].line) # {}

(***************************************************************************)
(* Lines in flight: read, and their listener run has not ended.            *)
(***************************************************************************)
InFlight == {i \in DOMAIN lines : ~Finished(i)}

\* The awaits the listener run of line i is suspended at.
Continuations(i) ==
    Cardinality({t \in DOMAIN tasks : tasks[t].line = i})
        + Cardinality({p \in pending : p.line = i})

\* The stderr entry is the log line the listener writes on receipt of a
\* request or a notification.
IsReceiptLog(k) ==
    /\ stderr[k].by \in DOMAIN lines
    /\ stderr[k].message \in
           {"Received request: " \o Str(MethodOf(stderr[k].by)),
            "Received notification: " \o Str(MethodOf(stderr[k].by))}

(***************************************************************************)
(* C16 (as stated).  At most one message is in flight: the handling of a   *)
(* line has completed (its response is written, or the notification has    *)
(* been processed) before the next line is handled, so every request but   *)
(* the last line read is finished.                                         *)
(***************************************************************************)
C16_OneMessageInFlight ==
    \A i \in DOMAIN lines : i < Len(lines) /\ IsRequest(i) => Finished(i)

(***************************************************************************)
(* C16 (amended).  Lines are dispatched in input order, each up to its     *)
(* first await, but several may be in flight: a line in flight is          *)
(* suspended at exactly one await, and receipts are logged and handlers    *)
(* are invoked in the order of the lines.                                  *)
(***************************************************************************)
C16_DispatchedInOrderSuspendedAtOneAwait ==
    /\ \A i \in InFlight : Continuations(i) = 1
    /\ \A c, d \in DOMAIN calls : c < d => calls[c].line < calls[d].line
    /\ \A k, l \in DOMAIN stderr :
          k < l /\ IsReceiptLog(k) /\ IsReceiptLog(l) => stderr[k].by < stderr[l].by

\* Two tools/call requests wait for their child processes at the same time.
C16_Witness ==
    /\ Len(lines) = 2 /\ InFlight = {1, 2}
    /\ Cardinality(pending) = 2

(***************************************************************************)
(* C17.  A tool handler waiting for its child process does not block       *)
(* input: while it is pending the next line can still be read, and every   *)
(* line read after its request has been dispatched (a tools/call among     *)
(* them has invoked its own handler) and any response written for such a   *)
(* line carries that line's own id.                                        *)
(***************************************************************************)
C17_PendingHandlerDoesNotBlockInput ==
    \A p \in pending :
        /\ pc = "serving" /\ stdinOpen /\ ~exited /\ tasks = <<>> /\ Len(lines) < MaxLines
            => ENABLED OnLine(ProtocolLines)
        /\ \A j \in DOMAIN lines :
               j > p.line =>
                   /\ Continuations(j) = IF Finished(j) THEN 0 ELSE 1
                   /\ /\ IsRequest(j) /\ MethodOf(j) = "tools/call"
                      /\ MapHas(toolHandlers, ParamsOf(j).name)
                      => CallsBy(j) # {}
                   /\ \A k \in ResponsesTo(j) :
                          /\ lines[j].value.id # NoId
                          /\ stdout[k].text.id = lines[j].value.id

\* While a tools/call waits for its child process, a tools/list read after it
\* has been answered under its own id, which is not the id of the tools/call.
C17_Witness ==
    /\ Len(lines) = 2
    /\ \E p \in pending : p.line = 1 /\ p.id # lines[2].value.id
    /\ IsRequest(2) /\ MethodOf(2) = "tools/list"
    /\ \E k \in ResponsesTo(2) : stdout[k].text.id = lines[2].value.id

(***************************************************************************)
(* C18.  A notifications/cancelled message is only logged: the step that   *)
(* reads it writes its two log lines and nothing to stdout, and leaves the *)
(* pending handlers, the invocations and the continuations of the other    *)
(* lines as they are; it never gets a response.  So every tools/call whose *)
(* handler has settled is answered as its handler settled, cancellation or *)
(* not: once, with the handler's value or with its failure.                *)
(***************************************************************************)
IsCancellation(line) ==
    /\ line.valid /\ line.value.shape = "object" /\ ~line.value.shadow
    /\ line.value.id = NoId /\ line.value.method = "notifications/cancelled"

C18_CancellationIsOnlyLogged ==
    /\ [][Len(lines') = Len(lines) + 1 /\ IsCancellation(lines'[Len(lines')])
           => /\ UNCHANGED <<pending, calls, stdout, registries, running, listeners>>
              /\ OthersTasks(tasks', Len(lines')) = tasks
              /\ stderr' = stderr \o
                     <<[by |-> Len(lines'), level |-> "debug",
                        message |-> "Received notification: notifications/cancelled"],
                       [by |-> Len(lines'), level |-> "info",
                        message |-> "Request cancelled"]>>]_vars
    /\ [](\A i \in DOMAIN lines : IsCancellation(lines[i]) => ResponsesTo(i) = {})
    /\ [](\A c \in DOMAIN calls :
             Settled(c) =>
                 /\ Continuations(calls[c].line) = IF Finished(calls[c].line) THEN 0 ELSE 1
                 /\ Cardinality(ResponsesTo(calls[c].line)) =
                        IF Finished(calls[c].line) THEN 1 ELSE 0
                 /\ \A k \in ResponsesTo(calls[c].line) :
                        IF calls[c].outcome.ok
                        THEN /\ "result" \in DOMAIN stdout[k].text
                             /\ stdout[k].text.result = calls[c].outcome.value
                        ELSE IsErrorResponse(stdout[k].text, InternalError))

\* A cancellation arrived while a tools/call waited for its child process; it
\* has been handled and logged, and the handler is still pending.
C18_Witness ==
    /\ Len(lines) = 2 /\ IsCancellation(lines[2]) /\ Finished(2)
    /\ \E k \in DOMAIN stderr : stderr[k].by = 2 /\ stderr[k].message = "Request cancelled"
    /\ \E p \in pending : p.line = 1 /\ ~Settled(p.call)
    /\ stdout = <<>>

(***************************************************************************)
(* C19.  Every stdout line is one serialized response envelope: written by *)
(* sendResponse, without a line feed inside, with jsonrpc "2.0", an id and *)
(* either a result or an error made of a code and a message.  Every        *)
(* diagnostic is on stderr and not on stdout: the startup line, the        *)
(* receipt line of every request and notification whose method can be      *)
(* printed, the error line of every line whose handling failed, and the    *)
(* command echo of every build that was started.                           *)
(***************************************************************************)
IsEnvelope(text) ==
    /\ DOMAIN text \in {{"jsonrpc", "id", "result"}, {"jsonrpc", "id", "error"}}
    /\ text.jsonrpc = "2.0"
    /\ "error" \in DOMAIN text =>
           /\ DOMAIN text.error = {"code", "message"}
           /\ text.error.code \in {ParseError, InvalidRequest, MethodNotFound,
                                    InvalidParams, InternalError}

LoggedBy(i, level, message) ==
    \E k \in DOMAIN stderr :
        stderr[k] = [by |-> i, level |-> level, message |-> message]

FailureRaised(i) ==
    \/ \E c \in CallsBy(i) : Failed(c)
    \/ TemplateThrows(MethodOf(i))
    \/ MethodOf(i) = "tools/call" /\ ParamsOf(i).present /\ TemplateThrows(ParamsOf(i).name)

C20_NoFailureEscapesTheDispatcher ==
    /\ \A t \in DOMAIN tasks : tasks[t].resume # "throw"
    /\ pc = "serving" /\ stdinOpen /\ ~exited => running
    /\ \A i \in InFlight : Continuations(i) = 1
    /\ \A i \in DOMAIN lines :
          IsRequest(i) /\ FailureRaised(i) => AnsweredWithError(i, InternalError)

(***************************************************************************)
(* C21: resources/read validation and result.                              *)
(***************************************************************************)
IsResourceRead(i) == Received(i) /\ IsRequest(i) /\ MethodOf(i) = "resources/read"

\* The uri the request names (Undefined: params or params.uri is absent).
UriOf(i) == IF ParamsOf(i).present THEN ParamsOf(i).uri ELSE Undefined

\* The registerResource calls made for this uri; the last one is in force.
ResourceCallsFor(uri) == {n \in ResourceCalls : api[n].resource.uri = uri}

LastResourceCall(uri) ==
    api[CHOOSE n \in ResourceCallsFor(uri) : \A m \in ResourceCallsFor(uri) : m <= n]

\* The response is the success result of reading this uri: one contents entry
\* with the uri, the registered mimeType (text/plain when it has none) and a
\* string the registered handler returns.
IsReadResult(text, uri) ==
    LET registered == LastResourceCall(uri)
    IN  /\ "result" \in DOMAIN text /\ "error" \notin DOMAIN text
        /\ Len(text.result.contents) = 1
        /\ text.result.contents[1].uri = uri
        /\ text.result.contents[1].mimeType =
               (IF registered.resource.mimeType \in {Undefined, ""}
                THEN "text/plain" ELSE registered.resource.mimeType)
        /\ \E o \in InvokeResource(registered.handler).outcomes :
               o.ok /\ o.value = text.result.contents[1].text

\* Line i reads a registered resource: once the read has ended it has exactly
\* one answer, the read result or an InternalError for the handler's failure.
AnsweredWithContents(i) ==
    /\ Cardinality(ResponsesTo(i)) = (IF Finished(i) THEN 1 ELSE 0)
    /\ \A k \in ResponsesTo(i) :
          /\ stdout[k].text.id = lines[i].value.id
          /\ \/ IsReadResult(stdout[k].text, UriOf(i))
             \/ /\ IsErrorResponse(stdout[k].text, InternalError)
                /\ \E o \in InvokeResource(LastResourceCall(UriOf(i)).handler).outcomes :
                      /\ ~o.ok
                      /\ stdout[k].text.error.message =
                             "Resource read failed: " \o o.failure.message

\* C21 as stated: a resources/read request whose params or params.uri is
\* absent is answered with InvalidParams, one whose uri has no registered
\* handler with MethodNotFound, and a successful read returns one contents
\* entry with the handler's string, the uri and the resource's mimeType
\* (text/plain by default).
C21_ReadValidationByPresence ==
    \A i \in LineNumbers :
        IsResourceRead(i) =>
            IF UriOf(i) = Undefined THEN AnsweredWithError(i, InvalidParams)
            ELSE IF ResourceCallsFor(UriOf(i)) = {} THEN AnsweredWithError(i, MethodNotFound)
            ELSE AnsweredWithContents(i)

\* C21, amended: a resources/read request whose params or params.uri is absent
\* or empty is answered with InvalidParams, one whose uri is a non-empty string
\* without a registered handler with MethodNotFound (a uri that has no string
\* form with InternalError), and a successful read returns one contents entry
\* with the handler's string, the uri and the resource's mimeType (text/plain
\* by default).
C21_ReadValidationAndResult ==
    \A i \in LineNumbers :
        IsResourceRead(i) =>
            IF UriOf(i) \in {Undefined, ""} THEN AnsweredWithError(i, InvalidParams)
            ELSE IF UriOf(i) = Unprintable THEN AnsweredWithError(i, InternalError)
            ELSE IF ResourceCallsFor(UriOf(i)) = {} THEN AnsweredWithError(i, MethodNotFound)
            ELSE AnsweredWithContents(i)

\* A read of a resource registered with an empty mimeType was answered with
\* text/plain contents, and a read with an empty uri with InvalidParams.
C21_Witness ==
    \E i, j \in DOMAIN lines :
        /\ IsResourceRead(i) /\ UriOf(i) = "icode://log" /\ Finished(i)
        /\ \E k \in ResponsesTo(i) :
              /\ IsReadResult(stdout[k].text, "icode://log")
              /\ stdout[k].text.result.contents[1].mimeType = "text/plain"
        /\ IsResourceRead(j) /\ UriOf(j) = "" /\ Finished(j)
        /\ \E k \in ResponsesTo(j) : IsErrorResponse(stdout[k].text, InvalidParams)

(***************************************************************************)
(* C22: the registries are read-only after construction.                   *)
(***************************************************************************)
\* The last call made on the server object was stop().
LastCallIsStop == api[Len(api)].op = "stop"

\* C22: the tool and resource registries are populated once, by the
\* constructor, and read-only afterwards: no sequence of input lines, start()
\* and stop() calls adds, removes or replaces an entry.
C22_RegistriesFixedAfterConstruction ==
    /\ tools = Constructed[1]
    /\ toolHandlers = Constructed[2]
    /\ resources = <<>>
    /\ resourceHandlers = <<>>

\* The server was stopped and started again, and a tool call read after that
\* has been answered.
C22_Witness ==
    /\ StopCalls # {} /\ Cardinality(StartCalls) = 2 /\ ~LastCallIsStop
    /\ \E i \in DOMAIN lines :
          /\ \A n \in StopCalls : api[n].lines < i
          /\ CallsBy(i) # {} /\ Finished(i) /\ ResponsesTo(i) # {}

(***************************************************************************)
(* C26: stop().                                                            *)
(***************************************************************************)
\* The listener run of line i has done something: logged, queued a
\* continuation, called a handler or written a response.
Dispatched(i) ==
    \/ \E k \in DOMAIN stderr : stderr[k].by = i
    \/ \E t \in DOMAIN tasks : tasks[t].line = i
    \/ CallsBy(i) # {}
    \/ ResponsesTo(i) # {}

\* C26: after stop() the running flag is false and no input line received
\* after the call is dispatched.  (That requests already in flight still
\* complete is the liveness half of the claim; stop() does not touch them.)
C26_NoDispatchAfterStop ==
    LastCallIsStop =>
        /\ ~running
        /\ \A i \in DOMAIN lines : i > api[Len(api)].lines => ~Dispatched(i)

(***************************************************************************)
(* C29: one line listener.                                                 *)
(***************************************************************************)
\* C29: for any sequence of start(), stop() and stdin close events at most
\* one line listener is attached to the input stream, so no line is handled
\* twice and no request gets more than one response.
C29_AtMostOneListener ==
    /\ listeners <= 1
    /\ \A i \in DOMAIN lines :
          /\ Cardinality(ResponsesTo(i)) <= 1
          /\ Cardinality({k \in DOMAIN stderr : stderr[k].by = i /\ IsReceiptLog(k)}) <= 1

(***************************************************************************)
(* C23: the jsonrpc version.                                               *)
(***************************************************************************)
\* The line parses as a JSON object whose jsonrpc member is missing or is
\* not "2.0".
HasOtherVersion(i) ==
    /\ lines[i].valid
    /\ lines[i].value.shape = "object"
    /\ lines[i].value.jsonrpc # "2.0"

\* C23: a message is dispatched only if its jsonrpc member is "2.0": one
\* without it, or with another value, is not executed as a request (no tool
\* handler is called for it and it gets no result); and every response
\* written has jsonrpc = "2.0".
C23_OnlyVersion2IsExecuted ==
    /\ \A i \in DOMAIN lines :
          HasOtherVersion(i) =>
              /\ CallsBy(i) = {}
              /\ \A k \in ResponsesTo(i) : "result" \notin DOMAIN stdout[k].text
    /\ \A k \in DOMAIN stdout : stdout[k].text.jsonrpc = "2.0"

(***************************************************************************)
(* C27: the two tool maps agree.                                           *)
(***************************************************************************)
MapKeys(m) == [n \in DOMAIN m |-> m[n].key]

IsToolCall(i) == Received(i) /\ IsRequest(i) /\ MethodOf(i) = "tools/call"

\* The tool name the request carries (Undefined: params or params.name is absent).
ToolNameOf(i) == IF ParamsOf(i).present THEN ParamsOf(i).name ELSE Undefined

\* The names a tools/list response carries.
ListedNames(text) == {text.result.tools[n].name : n \in DOMAIN text.result.tools}

\* C27: the tool-definition map and the tool-handler map have the same keys
\* in every reachable state: every name tools/list returns is callable (a
\* tools/call with it reaches its handler and is never answered with
\* MethodNotFound), and every name tools/call accepts is listed.
C27_ListedIffCallable ==
    /\ MapKeys(tools) = MapKeys(toolHandlers)
    /\ \A n \in DOMAIN tools : tools[n].value.name = tools[n].key
    /\ \A i \in DOMAIN lines :
          IsToolCall(i) =>
              /\ MapHas(tools, ToolNameOf(i)) =>
                    /\ CallsBy(i) # {}
                    /\ \A k \in ResponsesTo(i) :
                          ~IsErrorResponse(stdout[k].text, MethodNotFound)
              /\ CallsBy(i) # {} => MapHas(tools, ToolNameOf(i))
    /\ \A k \in DOMAIN stdout :
          ("result" \in DOMAIN stdout[k].text /\ "tools" \in DOMAIN stdout[k].text.result)
              => ListedNames(stdout[k].text) = {toolHandlers[n].key : n \in DOMAIN toolHandlers}

\* tools/list has been answered and a call of one of the names it lists has
\* been answered with the handler's result.
C27_Witness ==
    \E i, j \in DOMAIN lines :
        /\ Received(i) /\ MethodOf(i) = "tools/list" /\ Finished(i)
        /\ \E k \in ResponsesTo(i) :
              /\ "result" \in DOMAIN stdout[k].text
              /\ IsToolCall(j) /\ ToolNameOf(j) \in ListedNames(stdout[k].text)
        /\ Finished(j)
        /\ \E k \in ResponsesTo(j) : "result" \in DOMAIN stdout[k].text

(***************************************************************************)
(* C28: no resource is ever registered.                                    *)
(***************************************************************************)
\* The response is the success result of resources/list with this list.
IsResourceList(text, list) ==
    /\ "result" \in DOMAIN text /\ "error" \notin DOMAIN text
    /\ text.result = [resources |-> list]

\* C28 as stated: the resource registry is empty in every reachable state, a
\* resources/list request always returns an empty list, and a resources/read
\* request never succeeds: InvalidParams when params.uri is missing,
\* MethodNotFound for every uri.
C28_NoResourceEverMethodNotFound ==
    /\ resources = <<>> /\ resourceHandlers = <<>>
    /\ \A i \in DOMAIN lines :
          /\ (IsRequest(i) /\ MethodOf(i) = "resources/list") =>
                /\ Cardinality(ResponsesTo(i)) = (IF Finished(i) THEN 1 ELSE 0)
                /\ \A k \in ResponsesTo(i) : IsResourceList(stdout[k].text, <<>>)
          /\ IsResourceRead(i) =>
                IF UriOf(i) = Undefined THEN AnsweredWithError(i, InvalidParams)
                ELSE AnsweredWithError(i, MethodNotFound)

\* C28, amended: the resource registry is empty in every reachable state, a
\* resources/list request always returns an empty list, and a resources/read
\* request never succeeds: InvalidParams when params.uri is missing or empty,
\* MethodNotFound for every uri that is a non-empty string.
C28_NoResourceEverRegistered ==
    /\ resources = <<>> /\ resourceHandlers = <<>>
    /\ \A i \in DOMAIN lines :
          /\ (IsRequest(i) /\ MethodOf(i) = "resources/list") =>
                /\ Cardinality(ResponsesTo(i)) = (IF Finished(i) THEN 1 ELSE 0)
                /\ \A k \in ResponsesTo(i) : IsResourceList(stdout[k].text, <<>>)
          /\ IsResourceRead(i) =>
                IF UriOf(i) \in {Undefined, ""} THEN AnsweredWithError(i, InvalidParams)
                ELSE AnsweredWithError(i, MethodNotFound)

\* resources/list has been answered with the empty list and a read of
\* icode://state with MethodNotFound.
C28_Witness ==
    \E i, j \in DOMAIN lines :
        /\ IsRequest(i) /\ MethodOf(i) = "resources/list" /\ Finished(i)
        /\ \E k \in ResponsesTo(i) : IsResourceList(stdout[k].text, <<>>)
        /\ IsResourceRead(j) /\ UriOf(j) = "icode://state" /\ Finished(j)
        /\ \E k \in ResponsesTo(j) : IsErrorResponse(stdout[k].text, MethodNotFound)

(***************************************************************************)
(* C30: closing stdin drops no response.                                   *)
(***************************************************************************)
\* stdin has closed while a tool handler waits for its child process.
ClosedWhilePending == ~stdinOpen /\ ~exited /\ pending # {}

\* Every tools/call that reached a handler has ended with exactly one
\* response that carries its id: the handler's result or an InternalError.
AllCallsAnswered ==
    \A i \in DOMAIN lines :
        (IsToolCall(i) /\ CallsBy(i) # {}) =>
            /\ Finished(i)
            /\ Cardinality(ResponsesWithIdOf(i)) = 1
            /\ \A k \in ResponsesTo(i) :
                  \/ "result" \in DOMAIN stdout[k].text
                  \/ IsErrorResponse(stdout[k].text, InternalError)

\* C30: closing stdin drops no response: when stdin closes while a tools/call
\* handler is pending the running flag becomes false, the handler still
\* settles and its response, with the request's id, is written afterwards;
\* the process does not end by itself before that.  (Only a termination
\* signal, not the close, can cut the handler off.)
C30_CloseDropsNoResponse ==
    /\ [](~stdinOpen => ~running)
    /\ []((exited /\ ~Signalled) => AllCallsAnswered)
    /\ [](ClosedWhilePending => <>(Signalled \/ AllCallsAnswered))

\* stdin has closed while the build handler waits for xcodebuild: the server
\* is marked stopped and nothing has been written yet.
C30_Witness ==
    /\ ClosedWhilePending /\ ~running /\ stdout = <<>>
    /\ \E p \in pending : calls[p.call].handler = "handleBuild"

(***************************************************************************)
(* C24: a build cannot hang.                                               *)
(***************************************************************************)
BuildPending == \E p \in pending : calls[p.call].handler = "handleBuild"

\* Every build call that has settled with a failure (a failed, timed-out or
\* overflowing xcodebuild among them) is answered, once the listener is done,
\* with one InternalError response that carries the failure's message.
BuildFailuresAnswered ==
    \A c \in DOMAIN calls :
        (calls[c].handler = "handleBuild" /\ Failed(c) /\ Finished(calls[c].line)) =>
            /\ Cardinality(ResponsesWithIdOf(calls[c].line)) = 1
            /\ \A k \in ResponsesTo(calls[c].line) :
                  /\ IsErrorResponse(stdout[k].text, InternalError)
                  /\ stdout[k].text.error.message =
                         "Tool execution failed: " \o calls[c].outcome.failure.message

\* Every build request has ended with exactly one response.
BuildsAnswered ==
    \A i \in DOMAIN lines :
        (IsToolCall(i) /\ ToolNameOf(i) = "build") =>
            Finished(i) /\ Cardinality(ResponsesWithIdOf(i)) = 1

\* C24: the build tool cannot hang a request: the xcodebuild child runs under
\* a ten-minute timeout and a bounded output buffer; when either is exceeded
\* the handler fails, and the request is eventually answered (with an
\* InternalError response) instead of staying pending forever, unless a
\* termination signal ends the process first.
C24_BuildNeverHangs ==
    /\ []BuildFailuresAnswered
    /\ [](BuildPending => <>(Signalled \/ BuildsAnswered))

\* A build whose xcodebuild was cut off has been answered with InternalError.
C24_Witness ==
    \E c \in DOMAIN calls :
        /\ calls[c].handler = "handleBuild" /\ Failed(c) /\ Finished(calls[c].line)
        /\ calls[c].outcome = execFailed
        /\ \E k \in ResponsesTo(calls[c].line) :
              IsErrorResponse(stdout[k].text, InternalError)

(***************************************************************************)
(* C25: shell commands and their arguments.                                *)
(***************************************************************************)
\* The commands the handler runs for arguments that hold ordinary characters only.
PlainCommands ==
    CASE shell.tool = "build" -> BuildCommands(PlainBuildArguments)
      [] shell.tool = "list_projects" -> ListCommands(PlainListArguments)
      [] OTHER -> shell.commands

\* C25: every handler that shells out (build, run, list_projects) escapes
\* each user-supplied argument before it puts it into the command, so the
\* command the shell runs has the same token structure for every argument
\* string: an argument with quotes, spaces or shell metacharacters stays one
\* word and adds no operator and no substitution.
C25_ArgumentsStayOneWord ==
    \A n \in DOMAIN shell.commands :
        Tokens(shell.commands[n]) = Tokens(PlainCommands[n])

====
